---- MODULE Spec2Model ----
(***************************************************************************)
(* Model of interestingness_xrl/explainability/analysis/__init__.py:       *)
(* class AnalysisBase.  The program is single threaded; `pc` is the        *)
(* position of the one call in progress ("idle" between calls).            *)
(***************************************************************************)
EXTENDS Integers, FiniteSets, Sequences, TLC

\* ---------------------------------------------------------------- bounds
NumAgents == 1
NumHelpers == 2
NumFiles == 2
NumElems == 1
NumSamples == 2
NumVariants == 2

\* ------------------------------------------------------------ value sets
None == 0
Agents == 1..NumAgents
Helpers == 1..NumHelpers
\* helper.config : every helper object carries its own configuration object
HelperConfig(h) == h
Configs == {HelperConfig(h) : h \in Helpers}

\* The two instances the model follows: the one built by __init__ and the one
\* returned by load_json.
Ids == {"built", "loaded"}
NoInst == [live |-> FALSE, agent |-> None, helper |-> None, config |-> None]

VARIABLES
  inst,        \* Ids -> instance record (live, agent, helper, config)
  jsonDisk,    \* content of the file at json_file_path
  json_file,   \* the handle opened by save_json / load_json: "closed" | "open"
  pc,          \* position of the call in progress
  self,        \* the instance save_json runs on
  agent,       \* local `agent` of save_json
  helper,      \* local `helper` of save_json
  json_str,    \* local `json_str` of save_json
  analysis,    \* local `analysis` of load_json
  hookCalls,   \* invocations of _after_loaded_json in the current load_json
  hookOn,      \* the object _after_loaded_json was invoked on
  retval,      \* the value returned by the call that just ended
  op,          \* the call in progress or just ended
  outcome,     \* how the call that just ended ended ("none" while running)
  pre,         \* fields of `self` at entry of save_json
  \* save_report
  reportDisk,    \* content of the file at file_path
  file,          \* the sink opened by save_report: "none" | "open" | "closed"
  write_console, \* parameter of save_report
  console,       \* whether the report was mirrored to the console
  srCalls,       \* invocations of _save_report in the current save_report
  srArg,         \* the arguments _save_report was invoked with
  pending,       \* the failure travelling through the with block
  \* save_visual_report
  pathKind,      \* what is at `path`: "absent" | "dir" | "file"
  dirFiles,      \* file name -> "none" | "old" | "new" ("new": written by the latest call)
  clean,         \* parameter of save_visual_report
  snap,          \* `path` as it was at entry of save_visual_report
  written,       \* artifacts written by the latest _save_visual_report
  visualOk,      \* the latest save_visual_report returned normally
  prev,          \* the save_visual_report call before the latest one
  removed,       \* rmtree removed something from `path` in the current call
  created,       \* makedirs created `path` in the current call
  \* difference_to
  dSelf,         \* `self` of difference_to
  dOther,        \* `other` of difference_to
  dResult,       \* the analysis difference_to returned
  dSelf0,        \* `self` as it was before the call
  dOther0        \* `other` as it was before the call

jsonVars == <<inst, jsonDisk, json_file, self, agent, helper, json_str,
              analysis, hookCalls, hookOn, retval, pre>>
reportVars == <<reportDisk, file, write_console, console, srCalls, srArg, pending>>
visualVars == <<pathKind, dirFiles, clean, snap, written, visualOk, prev, removed, created>>
diffVars == <<dSelf, dOther, dResult, dSelf0, dOther0>>

vars == <<pc, op, outcome, jsonVars, reportVars, visualVars, diffVars>>

\* ------------------------------------------------------------ __init__
\* AnalysisBase.__init__(helper, agent)
Construct(h, a) == [live |-> TRUE, agent |-> a, helper |-> h, config |-> HelperConfig(h)]

\* ------------------------------------------------------------ jsonpickle
AbsentFile == [kind |-> "absent", agent |-> None, helper |-> None, config |-> None]
\* an empty, truncated or otherwise undecodable file
InvalidFile == [kind |-> "invalid", agent |-> None, helper |-> None, config |-> None]

\* jsonpickle.encode(self): the object graph, the three references included
encode(r) == [kind |-> "json", agent |-> r.agent, helper |-> r.helper, config |-> r.config]
\* jsonpickle.decode(text)
decode(f) == [live |-> TRUE, agent |-> f.agent, helper |-> f.helper, config |-> f.config]

\* ------------------------------------------------------------ save_json
\* a clearing that leaves the helper in place
Cleared_KeepsHelper(r) == [r EXCEPT !.agent = None, !.config = None]
\* self.agent = self.helper = self.config = None
Cleared(r) == [r EXCEPT !.agent = None, !.helper = None, !.config = None]

\* self.agent = agent; self.helper = helper; self.config = helper.config
\* (the first two assignments, as far as a missing helper lets them get)
RestoredUpToHelper(r, a, h) == [r EXCEPT !.agent = a, !.helper = h]
\* a restore that forgets the config
Restored_ForgetsConfig(r, a, h) == [r EXCEPT !.agent = a, !.helper = h]
Restored(r, a, h) == [r EXCEPT !.agent = a, !.helper = h, !.config = HelperConfig(h)]

\* the call ends: control is back at the caller
Ends(how, val) ==
  /\ pc' = "idle"
  /\ outcome' = how
  /\ retval' = val

SaveJsonBegin(s) ==
  /\ UNCHANGED <<reportVars, visualVars, diffVars>>
  /\ pc = "idle"
  /\ inst[s].live
  /\ op' = "save_json"
  /\ self' = s
  /\ pre' = inst[s]
  /\ agent' = inst[s].agent
  /\ helper' = inst[s].helper
  /\ inst' = [inst EXCEPT ![s] = Cleared(inst[s])]
  /\ pc' = "sj_open"
  /\ outcome' = "none"
  /\ retval' = NoInst
  /\ json_str' = InvalidFile
  /\ analysis' = NoInst
  /\ hookCalls' = 0
  /\ hookOn' = NoInst
  /\ UNCHANGED <<jsonDisk, json_file>>

\* with open(json_file_path, 'w') as json_file
SaveJsonOpen ==
  /\ UNCHANGED <<reportVars, visualVars, diffVars>>
  /\ pc = "sj_open"
  /\ \/ /\ jsonDisk' = InvalidFile
        /\ json_file' = "open"
        /\ pc' = "sj_encode"
        /\ UNCHANGED <<outcome, retval>>
     \/ /\ Ends("raised_io", NoInst)
        /\ UNCHANGED <<jsonDisk, json_file>>
  /\ UNCHANGED <<inst, self, agent, helper, json_str, analysis, hookCalls, hookOn, op, pre>>

\* json_str = jsonpickle.encode(self)
SaveJsonEncode ==
  /\ UNCHANGED <<reportVars, visualVars, diffVars>>
  /\ pc = "sj_encode"
  /\ \/ /\ json_str' = encode(inst[self])
        /\ pc' = "sj_write"
        /\ UNCHANGED <<json_file, outcome, retval>>
     \/ /\ json_file' = "closed"
        /\ Ends("raised_io", NoInst)
        /\ UNCHANGED json_str
  /\ UNCHANGED <<inst, jsonDisk, self, agent, helper, analysis, hookCalls, hookOn, op, pre>>

\* json_file.write(json_str)
SaveJsonWrite ==
  /\ UNCHANGED <<reportVars, visualVars, diffVars>>
  /\ pc = "sj_write"
  /\ \/ /\ jsonDisk' = json_str
        /\ pc' = "sj_close"
        /\ UNCHANGED <<json_file, outcome, retval>>
     \/ /\ jsonDisk' = InvalidFile
        /\ json_file' = "closed"
        /\ Ends("raised_io", NoInst)
  /\ UNCHANGED <<inst, self, agent, helper, json_str, analysis, hookCalls, hookOn, op, pre>>

\* end of the with block
SaveJsonClose ==
  /\ UNCHANGED <<reportVars, visualVars, diffVars>>
  /\ pc = "sj_close"
  /\ json_file' = "closed"
  /\ pc' = "sj_restore"
  /\ UNCHANGED <<inst, jsonDisk, self, agent, helper, json_str, analysis, hookCalls,
                 hookOn, retval, op, outcome, pre>>

\* a restore that skips the config lookup when there is no helper
SaveJsonRestore_Guarded ==
  /\ UNCHANGED <<reportVars, visualVars, diffVars>>
  /\ pc = "sj_restore"
  /\ IF helper = None
       THEN /\ inst' = [inst EXCEPT ![self] = RestoredUpToHelper(inst[self], agent, helper)]
            /\ Ends("returned", NoInst)
       ELSE /\ inst' = [inst EXCEPT ![self] = Restored(inst[self], agent, helper)]
            /\ Ends("returned", NoInst)
  /\ UNCHANGED <<jsonDisk, json_file, self, agent, helper, json_str, analysis, hookCalls,
                 hookOn, op, pre>>

\* self.agent = agent; self.helper = helper; self.config = helper.config
\* (None.config raises AttributeError after the first two assignments)
SaveJsonRestore ==
  /\ UNCHANGED <<reportVars, visualVars, diffVars>>
  /\ pc = "sj_restore"
  /\ IF helper = None
       THEN /\ inst' = [inst EXCEPT ![self] = RestoredUpToHelper(inst[self], agent, helper)]
            /\ Ends("raised_attr", NoInst)
       ELSE /\ inst' = [inst EXCEPT ![self] = Restored(inst[self], agent, helper)]
            /\ Ends("returned", NoInst)
  /\ UNCHANGED <<jsonDisk, json_file, self, agent, helper, json_str, analysis, hookCalls,
                 hookOn, op, pre>>

\* ------------------------------------------------------------ load_json
LoadJsonBegin ==
  /\ UNCHANGED <<reportVars, visualVars, diffVars>>
  /\ pc = "idle"
  /\ op' = "load_json"
  /\ pc' = "lj_open"
  /\ outcome' = "none"
  /\ retval' = NoInst
  /\ analysis' = NoInst
  /\ hookCalls' = 0
  /\ hookOn' = NoInst
  /\ self' = "built"
  /\ agent' = None
  /\ helper' = None
  /\ json_str' = InvalidFile
  /\ pre' = NoInst
  /\ UNCHANGED <<inst, jsonDisk, json_file>>

\* with open(json_file_path) as json_file
LoadJsonOpen ==
  /\ UNCHANGED <<reportVars, visualVars, diffVars>>
  /\ pc = "lj_open"
  /\ \/ /\ jsonDisk.kind # "absent"
        /\ json_file' = "open"
        /\ pc' = "lj_decode"
        /\ UNCHANGED <<outcome, retval>>
     \/ /\ Ends("raised_io", NoInst)
        /\ UNCHANGED json_file
  /\ UNCHANGED <<inst, jsonDisk, self, agent, helper, json_str, analysis, hookCalls,
                 hookOn, op, pre>>

\* a decode whose failure still reaches the hook
LoadJsonDecode_HookAlways ==
  /\ UNCHANGED <<reportVars, visualVars, diffVars>>
  /\ pc = "lj_decode"
  /\ \/ /\ jsonDisk.kind = "json"
        /\ analysis' = decode(jsonDisk)
        /\ pc' = "lj_hook"
        /\ UNCHANGED <<json_file, outcome, retval>>
     \/ /\ pc' = "lj_hook"
        /\ UNCHANGED <<analysis, json_file, outcome, retval>>
  /\ UNCHANGED <<inst, jsonDisk, self, agent, helper, json_str, hookCalls, hookOn, op, pre>>

\* analysis = jsonpickle.decode(json_file.read())
LoadJsonDecode ==
  /\ UNCHANGED <<reportVars, visualVars, diffVars>>
  /\ pc = "lj_decode"
  /\ \/ /\ jsonDisk.kind = "json"
        /\ analysis' = decode(jsonDisk)
        /\ pc' = "lj_hook"
        /\ UNCHANGED <<json_file, outcome, retval>>
     \/ /\ json_file' = "closed"
        /\ Ends("raised_io", NoInst)
        /\ UNCHANGED analysis
  /\ UNCHANGED <<inst, jsonDisk, self, agent, helper, json_str, hookCalls, hookOn, op, pre>>

\* analysis._after_loaded_json()   (abstract: body is `pass`; a variant may raise)
LoadJsonHook ==
  /\ UNCHANGED <<reportVars, visualVars, diffVars>>
  /\ pc = "lj_hook"
  /\ hookCalls' = hookCalls + 1
  /\ hookOn' = analysis
  /\ \/ /\ pc' = "lj_return"
        /\ UNCHANGED <<json_file, outcome, retval>>
     \/ /\ json_file' = "closed"
        /\ Ends("raised_hook", NoInst)
  /\ UNCHANGED <<inst, jsonDisk, self, agent, helper, json_str, analysis, op, pre>>

\* return analysis
LoadJsonReturn ==
  /\ UNCHANGED <<reportVars, visualVars, diffVars>>
  /\ pc = "lj_return"
  /\ json_file' = "closed"
  /\ inst' = [inst EXCEPT !["loaded"] = analysis]
  /\ Ends("returned", analysis)
  /\ UNCHANGED <<jsonDisk, self, agent, helper, json_str, analysis, hookCalls, hookOn, op, pre>>

\* ------------------------------------------------------------ the caller
\* The caller binds a collaborator on an instance (the three fields are plain
\* public attributes; a loaded instance has to be re-bound by its caller).
\* The locals of the call that ended are out of scope from here on.
Reattach(s, f, v) ==
  /\ UNCHANGED <<reportVars, visualVars, diffVars>>
  /\ pc = "idle"
  /\ inst[s].live
  /\ inst' = [inst EXCEPT ![s] = [inst[s] EXCEPT ![f] = v]]
  /\ op' = "none"
  /\ outcome' = "none"
  /\ retval' = NoInst
  /\ self' = "built"
  /\ agent' = None
  /\ helper' = None
  /\ json_str' = InvalidFile
  /\ pre' = NoInst
  /\ analysis' = NoInst
  /\ hookCalls' = 0
  /\ hookOn' = NoInst
  /\ UNCHANGED <<jsonDisk, json_file, pc>>


\* ------------------------------------------------------------ save_report
NoArg == [sink |-> "none", flag |-> FALSE]

\* the call ends: control is back at the caller
Finish(how) ==
  /\ pc' = "idle"
  /\ outcome' = how

SaveReportBegin(wc) ==
  /\ UNCHANGED <<jsonVars, visualVars, diffVars>>
  /\ pc = "idle"
  /\ op' = "save_report"
  /\ outcome' = "none"
  /\ pc' = "sr_open"
  /\ write_console' = wc
  /\ file' = "none"
  /\ console' = FALSE
  /\ srCalls' = 0
  /\ srArg' = NoArg
  /\ pending' = "none"
  /\ UNCHANGED reportDisk

\* with open(file_path, 'w') as file
SaveReportOpen ==
  /\ UNCHANGED <<jsonVars, visualVars, diffVars>>
  /\ pc = "sr_open"
  /\ \/ /\ reportDisk' = "empty"
        /\ file' = "open"
        /\ pc' = "sr_body"
        /\ UNCHANGED outcome
     \/ /\ Finish("raised_io")
        /\ UNCHANGED <<reportDisk, file>>
  /\ UNCHANGED <<op, write_console, console, srCalls, srArg, pending>>

\* self._save_report(file, write_console)   (abstract: writes the report, may raise)
SaveReportBody ==
  /\ UNCHANGED <<jsonVars, visualVars, diffVars>>
  /\ pc = "sr_body"
  /\ srCalls' = srCalls + 1
  /\ srArg' = [sink |-> file, flag |-> write_console]
  /\ \/ /\ reportDisk' = "report"
        /\ console' = write_console
        /\ pending' = "none"
     \/ /\ reportDisk' \in {"empty", "partial"}
        /\ console' = FALSE
        /\ pending' = "report_error"
  /\ pc' = "sr_exit"
  /\ UNCHANGED <<op, outcome, file, write_console>>

\* an exit of the block that closes the sink only when the body succeeded
SaveReportExit_OnlyOnSuccess ==
  /\ UNCHANGED <<jsonVars, visualVars, diffVars>>
  /\ pc = "sr_exit"
  /\ file' = IF pending = "none" THEN "closed" ELSE file
  /\ pc' = "sr_end"
  /\ UNCHANGED <<op, outcome, reportDisk, write_console, console, srCalls, srArg, pending>>

\* end of the with block: the sink is closed
SaveReportExit ==
  /\ UNCHANGED <<jsonVars, visualVars, diffVars>>
  /\ pc = "sr_exit"
  /\ file' = "closed"
  /\ pc' = "sr_end"
  /\ UNCHANGED <<op, outcome, reportDisk, write_console, console, srCalls, srArg, pending>>

\* save_report returns, or the pending failure reaches the caller
SaveReportEnd ==
  /\ UNCHANGED <<jsonVars, visualVars, diffVars>>
  /\ pc = "sr_end"
  /\ IF pending = "none" THEN Finish("returned") ELSE Finish("raised_report")
  /\ UNCHANGED <<op, reportDisk, file, write_console, console, srCalls, srArg, pending>>

\* ------------------------------------------------------------ save_visual_report
FileNames == 1..NumFiles
EmptyDir == [n \in FileNames |-> "none"]
\* every file in `path` predates the call that starts now
Aged(d) == [n \in FileNames |-> IF d[n] = "none" THEN "none" ELSE "old"]
NoPrev == [cleanOk |-> FALSE, written |-> {}]

SaveVisualBegin(c) ==
  /\ UNCHANGED <<jsonVars, reportVars, diffVars>>
  /\ pc = "idle"
  /\ op' = "save_visual_report"
  /\ outcome' = "none"
  /\ pc' = "vr_exists"
  /\ clean' = c
  /\ prev' = [cleanOk |-> clean /\ visualOk, written |-> written]
  /\ dirFiles' = Aged(dirFiles)
  /\ snap' = [kind |-> pathKind, files |-> Aged(dirFiles)]
  /\ written' = {}
  /\ visualOk' = FALSE
  /\ removed' = FALSE
  /\ created' = FALSE
  /\ UNCHANGED pathKind

\* a test that reuses an existing path whatever `clean` says
SaveVisualExists_NeverClean ==
  /\ UNCHANGED <<jsonVars, reportVars, diffVars>>
  /\ pc = "vr_exists"
  /\ pc' = IF pathKind = "absent" THEN "vr_makedirs" ELSE "vr_delegate"
  /\ UNCHANGED <<op, outcome, visualVars>>

\* a test that cleans an existing path whatever `clean` says
SaveVisualExists_AlwaysClean ==
  /\ UNCHANGED <<jsonVars, reportVars, diffVars>>
  /\ pc = "vr_exists"
  /\ pc' = IF pathKind = "absent" THEN "vr_makedirs" ELSE "vr_rmtree"
  /\ UNCHANGED <<op, outcome, visualVars>>

\* if not exists(path): ... elif clean: ...
SaveVisualExists ==
  /\ UNCHANGED <<jsonVars, reportVars, diffVars>>
  /\ pc = "vr_exists"
  /\ pc' = IF pathKind = "absent" THEN "vr_makedirs"
           ELSE IF clean THEN "vr_rmtree"
           ELSE "vr_delegate"
  /\ UNCHANGED <<op, outcome, visualVars>>

\* rmtree(path): removes the tree; fails on a non-directory, or part way through
SaveVisualRmtree ==
  /\ UNCHANGED <<jsonVars, reportVars, diffVars>>
  /\ pc = "vr_rmtree"
  /\ \/ /\ pathKind = "dir"
        /\ pathKind' = "absent"
        /\ dirFiles' = EmptyDir
        /\ removed' = TRUE
        /\ pc' = "vr_makedirs"
        /\ UNCHANGED outcome
     \/ /\ pathKind = "dir"
        /\ \E gone \in SUBSET {n \in FileNames : dirFiles[n] # "none"} :
             /\ dirFiles' = [n \in FileNames |-> IF n \in gone THEN "none" ELSE dirFiles[n]]
             /\ removed' = (gone # {})
        /\ Finish("raised_io")
        /\ UNCHANGED pathKind
     \/ /\ pathKind = "file"
        /\ Finish("raised_io")
        /\ UNCHANGED <<pathKind, dirFiles, removed>>
  /\ UNCHANGED <<op, clean, snap, written, visualOk, prev, created>>

\* makedirs(path)
SaveVisualMakedirs ==
  /\ UNCHANGED <<jsonVars, reportVars, diffVars>>
  /\ pc = "vr_makedirs"
  /\ \/ /\ pathKind = "absent"
        /\ pathKind' = "dir"
        /\ dirFiles' = EmptyDir
        /\ created' = TRUE
        /\ pc' = "vr_delegate"
        /\ UNCHANGED outcome
     \/ /\ Finish("raised_io")
        /\ UNCHANGED <<pathKind, dirFiles, created>>
  /\ UNCHANGED <<op, clean, snap, written, visualOk, prev, removed>>

\* self._save_visual_report(path)   (abstract: writes artifacts into path, may raise)
SaveVisualDelegate ==
  /\ UNCHANGED <<jsonVars, reportVars, diffVars>>
  /\ pc = "vr_delegate"
  /\ \/ /\ pathKind = "dir"
        /\ \E w \in SUBSET FileNames :
             /\ dirFiles' = [n \in FileNames |-> IF n \in w THEN "new" ELSE dirFiles[n]]
             /\ written' = w
        /\ \/ Finish("returned") /\ visualOk' = TRUE
           \/ Finish("raised_report") /\ visualOk' = FALSE
     \/ /\ pathKind # "dir"
        /\ Finish("raised_io")
        /\ UNCHANGED <<dirFiles, written, visualOk>>
  /\ UNCHANGED <<op, pathKind, clean, snap, prev, removed, created>>

\* ------------------------------------------------------------ difference_to
ElemNames == 1..NumElems
Samples == 1..NumSamples
Variants == 1..NumVariants

\* A concrete analysis: its variant, the names of its interestingness elements
\* and the sample set of each element (empty for a name it does not hold).
Analyses ==
  {a \in [variant : Variants, names : SUBSET ElemNames, samples : [ElemNames -> SUBSET Samples]] :
     \A e \in ElemNames : e \notin a.names => a.samples[e] = {}}
NoAnalysis == [variant |-> 0, names |-> {}, samples |-> [e \in ElemNames |-> {}]]

\* a difference that compares element names only
difference_to_NamesOnly(a, b) ==
  LET keep == a.names \ b.names
  IN  [variant |-> a.variant, names |-> keep,
       samples |-> [e \in ElemNames |-> IF e \in keep THEN a.samples[e] ELSE {}]]

\* self.difference_to(other): the elements of self that are missing in other,
\* each with the samples of self that other does not have for it
difference_to(a, b) ==
  LET keep == {e \in a.names : e \notin b.names \/ a.samples[e] \ b.samples[e] # {}}
  IN  [variant |-> a.variant, names |-> keep,
       samples |-> [e \in ElemNames |-> IF e \in keep THEN a.samples[e] \ b.samples[e] ELSE {}]]

DifferenceTo ==
  /\ UNCHANGED <<jsonVars, reportVars, visualVars>>
  /\ pc = "idle"
  /\ op' = "difference_to"
  /\ IF dSelf.variant = dOther.variant
       THEN /\ dResult' = difference_to(dSelf, dOther)
            /\ Finish("returned")
       ELSE /\ dResult' = NoAnalysis
            /\ Finish("raised_type")
  /\ UNCHANGED <<dSelf, dOther, dSelf0, dOther0>>

\* ------------------------------------------------------------ specifications
InitJson ==
  /\ \E h \in Helpers, a \in Agents \cup {None} :
       inst = [i \in Ids |-> IF i = "built" THEN Construct(h, a) ELSE NoInst]
  /\ jsonDisk \in {AbsentFile, InvalidFile}
  /\ json_file = "closed"
  /\ self = "built"
  /\ agent = None
  /\ helper = None
  /\ json_str = InvalidFile
  /\ analysis = NoInst
  /\ hookCalls = 0
  /\ hookOn = NoInst
  /\ retval = NoInst
  /\ pre = NoInst

InitReport ==
  /\ reportDisk \in {"absent", "report"}
  /\ file = "none"
  /\ write_console = FALSE
  /\ console = FALSE
  /\ srCalls = 0
  /\ srArg = NoArg
  /\ pending = "none"

InitVisual ==
  /\ pathKind \in {"absent", "dir", "file"}
  /\ dirFiles \in [FileNames -> {"none", "old"}]
  /\ pathKind # "dir" => dirFiles = EmptyDir
  /\ clean = FALSE
  /\ snap = [kind |-> pathKind, files |-> dirFiles]
  /\ written = {}
  /\ visualOk = FALSE
  /\ prev = NoPrev
  /\ removed = FALSE
  /\ created = FALSE

InitDiff ==
  /\ dSelf \in Analyses
  /\ dOther \in Analyses
  /\ dResult = NoAnalysis
  /\ dSelf0 = dSelf
  /\ dOther0 = dOther

InitControl ==
  /\ pc = "idle"
  /\ op = "none"
  /\ outcome = "none"

\* the instance, the JSON file and the calls save_json / load_json
Init ==
  /\ InitControl
  /\ InitJson
  /\ reportDisk = "absent" /\ file = "none" /\ write_console = FALSE /\ console = FALSE
  /\ srCalls = 0 /\ srArg = NoArg /\ pending = "none"
  /\ pathKind = "absent" /\ dirFiles = EmptyDir /\ clean = FALSE
  /\ snap = [kind |-> "absent", files |-> EmptyDir] /\ written = {} /\ visualOk = FALSE
  /\ prev = NoPrev /\ removed = FALSE /\ created = FALSE
  /\ dSelf = NoAnalysis /\ dOther = NoAnalysis /\ dResult = NoAnalysis
  /\ dSelf0 = NoAnalysis /\ dOther0 = NoAnalysis

Next ==
  \/ \E s \in Ids : SaveJsonBegin(s)
  \/ SaveJsonOpen
  \/ SaveJsonEncode
  \/ SaveJsonWrite
  \/ SaveJsonClose
  \/ SaveJsonRestore
  \/ LoadJsonBegin
  \/ LoadJsonOpen
  \/ LoadJsonDecode
  \/ LoadJsonHook
  \/ LoadJsonReturn
  \/ \E s \in Ids : \E v \in Agents \cup {None} : Reattach(s, "agent", v)
  \/ \E s \in Ids : \E v \in Helpers \cup {None} : Reattach(s, "helper", v)
  \/ \E s \in Ids : \E v \in Configs \cup {None} : Reattach(s, "config", v)

Spec == Init /\ [][Next]_vars

\* the report file, the visual report directory and the calls save_report /
\* save_visual_report
InitFiles ==
  /\ InitControl
  /\ InitReport
  /\ InitVisual
  /\ inst = [i \in Ids |-> IF i = "built" THEN Construct(1, None) ELSE NoInst]
  /\ jsonDisk = AbsentFile /\ json_file = "closed" /\ self = "built"
  /\ agent = None /\ helper = None /\ json_str = InvalidFile /\ analysis = NoInst
  /\ hookCalls = 0 /\ hookOn = NoInst /\ retval = NoInst /\ pre = NoInst
  /\ dSelf = NoAnalysis /\ dOther = NoAnalysis /\ dResult = NoAnalysis
  /\ dSelf0 = NoAnalysis /\ dOther0 = NoAnalysis

NextFiles ==
  \/ \E wc \in BOOLEAN : SaveReportBegin(wc)
  \/ SaveReportOpen
  \/ SaveReportBody
  \/ SaveReportExit
  \/ SaveReportEnd
  \/ \E c \in BOOLEAN : SaveVisualBegin(c)
  \/ SaveVisualExists
  \/ SaveVisualRmtree
  \/ SaveVisualMakedirs
  \/ SaveVisualDelegate

SpecFiles == InitFiles /\ [][NextFiles]_vars

\* two analyses drawn from the bounded sets and the calls of difference_to
InitDifference ==
  /\ InitControl
  /\ InitDiff
  /\ inst = [i \in Ids |-> IF i = "built" THEN Construct(1, None) ELSE NoInst]
  /\ jsonDisk = AbsentFile /\ json_file = "closed" /\ self = "built"
  /\ agent = None /\ helper = None /\ json_str = InvalidFile /\ analysis = NoInst
  /\ hookCalls = 0 /\ hookOn = NoInst /\ retval = NoInst /\ pre = NoInst
  /\ reportDisk = "absent" /\ file = "none" /\ write_console = FALSE /\ console = FALSE
  /\ srCalls = 0 /\ srArg = NoArg /\ pending = "none"
  /\ pathKind = "absent" /\ dirFiles = EmptyDir /\ clean = FALSE
  /\ snap = [kind |-> "absent", files |-> EmptyDir] /\ written = {} /\ visualOk = FALSE
  /\ prev = NoPrev /\ removed = FALSE /\ created = FALSE

NextDifference ==
  \/ DifferenceTo

SpecDifference == InitDifference /\ [][NextDifference]_vars

\* ------------------------------------------------------------ properties
Unbound(r) == r.agent = None /\ r.helper = None /\ r.config = None
SaveJsonEnded == op = "save_json" /\ outcome # "none"
LoadJsonEnded == op = "load_json" /\ outcome # "none"
SaveReportEnded == op = "save_report" /\ outcome # "none"
SaveVisualEnded == op = "save_visual_report" /\ outcome # "none"

\* C1: once save_json has ended, normally or by raising, agent, helper and
\* config of the instance hold the values they held right before the call.
C1_FieldsAsBeforeOnEveryExit ==
  SaveJsonEnded =>
    /\ inst[self].agent = pre.agent
    /\ inst[self].helper = pre.helper
    /\ inst[self].config = pre.config

\* C2: while save_json encodes and writes, agent, helper and config of the
\* instance are None, so no written file carries them, and an instance that
\* load_json returns has all three absent.
C2_PersistedFormHasNoBindings ==
  /\ pc \in {"sj_encode", "sj_write"} => Unbound(inst[self])
  /\ pc = "sj_write" => Unbound(json_str)
  /\ jsonDisk.kind = "json" => Unbound(jsonDisk)
  /\ (LoadJsonEnded /\ outcome = "returned") =>
       /\ retval.live
       /\ Unbound(retval)
       /\ inst["loaded"] = retval

C2_Witness ==
  /\ LoadJsonEnded
  /\ outcome = "returned"
  /\ inst["built"].agent # None
  /\ inst["built"].helper # None
  /\ inst["built"].config # None

\* C3: save_report invokes _save_report exactly once, with the open sink and
\* the given flag; the sink is closed before save_report returns or before the
\* failure of _save_report reaches the caller; no sink stays open.
C3_SinkClosedOnEveryExit ==
  /\ srCalls <= 1
  /\ pc = "sr_end" => file = "closed"
  /\ SaveReportEnded => file # "open"
  /\ (SaveReportEnded /\ outcome \in {"returned", "raised_report"}) =>
       /\ srCalls = 1
       /\ srArg = [sink |-> "open", flag |-> write_console]
       /\ file = "closed"
  /\ (SaveReportEnded /\ srCalls = 1) =>
       (outcome = "raised_report" <=> pending = "report_error")
  /\ (SaveReportEnded /\ outcome = "raised_io") => (srCalls = 0 /\ file = "none")

C3_Witness ==
  /\ SaveReportEnded
  /\ outcome = "raised_report"
  /\ pending = "report_error"
  /\ file = "closed"

\* C4: _after_loaded_json runs only on a successfully decoded object, once,
\* before load_json returns that object; when opening or decoding fails the
\* hook never runs and nothing is returned.
C4_HookOnlyAfterDecode ==
  /\ hookCalls <= 1
  /\ pc = "lj_hook" => (analysis.live /\ hookCalls = 0 /\ analysis = decode(jsonDisk))
  /\ hookCalls = 1 => (op = "load_json" /\ hookOn.live /\ hookOn = analysis)
  /\ pc = "lj_return" => hookCalls = 1
  /\ (LoadJsonEnded /\ outcome = "returned") =>
       (hookCalls = 1 /\ retval.live /\ retval = hookOn)
  /\ (LoadJsonEnded /\ outcome = "raised_io") =>
       (hookCalls = 0 /\ ~retval.live /\ ~analysis.live)
  /\ (LoadJsonEnded /\ outcome # "returned") => ~retval.live

C4_Witness ==
  /\ LoadJsonEnded
  /\ outcome = "returned"
  /\ hookCalls = 1
  /\ retval.live

\* C5: at the moment save_visual_report invokes _save_visual_report, path is a
\* directory, and it is empty when clean is true.
C5_DelegateGetsDirectory ==
  pc = "vr_delegate" =>
    /\ pathKind = "dir"
    /\ clean => dirFiles = EmptyDir

\* C6: after two consecutive save_visual_report calls with clean=True, the
\* directory holds exactly what the second _save_visual_report wrote.
C6_SecondCleanCallLeavesOnlyItsArtifacts ==
  (SaveVisualEnded /\ outcome = "returned" /\ clean /\ prev.cleanOk) =>
    /\ pathKind = "dir"
    /\ \A n \in FileNames : (dirFiles[n] # "none") <=> (n \in written)
    /\ \A n \in FileNames : dirFiles[n] # "old"

C6_Witness ==
  /\ SaveVisualEnded
  /\ outcome = "returned"
  /\ clean
  /\ prev.cleanOk
  /\ prev.written \ written # {}

\* C7: with clean=False on an existing directory nothing is removed or
\* re-created: _save_visual_report finds every earlier file as it was.
C7_ReuseKeepsExistingFiles ==
  (pc = "vr_delegate" /\ ~clean /\ snap.kind = "dir") =>
    /\ pathKind = "dir"
    /\ dirFiles = snap.files
    /\ ~removed
    /\ ~created

C7_Witness ==
  /\ pc = "vr_delegate"
  /\ ~clean
  /\ snap.kind = "dir"
  /\ \E n \in FileNames : snap.files[n] # "none"

C9_ConfigRestoredFromHelper ==
  (SaveJsonEnded /\ outcome = "returned") =>
    /\ pre.helper # None
    /\ inst[self].agent = pre.agent
    /\ inst[self].helper = pre.helper
    /\ inst[self].config = HelperConfig(pre.helper)

C9_Witness ==
  /\ SaveJsonEnded
  /\ outcome = "returned"
  /\ pre.config # None
  /\ pre.config # HelperConfig(pre.helper)
  /\ inst[self].config # pre.config

\* C10 as stated: save_json on an instance without helper writes and closes
\* the whole file, then raises while restoring config, and leaves agent, helper
\* and config all absent.
C10_AllAbsentAfterRestoreFailure ==
  (SaveJsonEnded /\ pre.helper = None /\ outcome = "raised_attr") =>
    /\ jsonDisk.kind = "json"
    /\ json_file = "closed"
    /\ Unbound(inst[self])

\* C10 amended: save_json on an instance without helper never returns
\* normally; when it raises while restoring config the whole file is written
\* and closed, helper and config are absent and agent is the agent held
\* before the call.
C10_AgentKeptAfterRestoreFailure ==
  /\ (SaveJsonEnded /\ pre.helper = None) => outcome \in {"raised_io", "raised_attr"}
  /\ (SaveJsonEnded /\ outcome = "raised_attr") =>
       /\ pre.helper = None
       /\ jsonDisk.kind = "json"
       /\ Unbound(jsonDisk)
       /\ json_file = "closed"
       /\ inst[self].agent = pre.agent
       /\ inst[self].helper = None
       /\ inst[self].config = None

C10_Witness ==
  /\ SaveJsonEnded
  /\ outcome = "raised_attr"
  /\ self = "loaded"
  /\ pre.agent # None
  /\ inst[self].agent = pre.agent

TypeOK ==
  /\ pc \in {"idle", "sj_open", "sj_encode", "sj_write", "sj_close", "sj_restore",
             "lj_open", "lj_decode", "lj_hook", "lj_return",
             "sr_open", "sr_body", "sr_exit", "sr_end",
             "vr_exists", "vr_rmtree", "vr_makedirs", "vr_delegate"}
  /\ json_file \in {"open", "closed"}
  /\ file \in {"none", "open", "closed"}
  /\ outcome \in {"none", "returned", "raised_io", "raised_attr", "raised_hook",
                  "raised_report", "raised_type"}
  /\ pathKind \in {"absent", "dir", "file"}
  /\ dSelf \in Analyses \cup {NoAnalysis}
====
